---- MODULE Spec2Model ----
(***************************************************************************)
(* Crawl / extract / reconcile core of the CCR compliance agent.           *)
(*                                                                         *)
(*   crawler/section_extractor.py   SectionExtractor (bounded worker pool, *)
(*                                  tenacity retry, extracted and failure  *)
(*                                  ledgers)                               *)
(*   retry_failed_extractions.py    the retry pass over the failure ledger *)
(*   coverage_tracker.py            CoverageTracker.calculate_coverage     *)
(*                                                                         *)
(* URLs are the integers 1..MaxWork, so that the sorted order in which     *)
(* save_discovered_urls writes the discovered ledger is the numeric order. *)
(* The remote document source is the environment: every fetch draws its    *)
(* answer from Answers, so every sequence of fetch outcomes is a           *)
(* behaviour.                                                              *)
(* Timestamps (retrieved_at, failed_at) are the logical clock, which ticks *)
(* once at the start of every run.                                         *)
(***************************************************************************)
EXTENDS Integers, Sequences, FiniteSets, TLC

\* ---- bounds of the model ------------------------------------------------
\* MaxWork bounds a behaviour of Spec: over k discovered URLs it makes at
\* most MaxWork \div k extraction runs and retry passes, so that one URL goes
\* through MaxWork runs and MaxWork URLs go through one
MaxWork == 4
MaxLimit == 1     \* largest --limit given to process_discovered_urls
NumCovURLs == 3   \* URLs in the ledgers read by SpecCoverage
MaxCount == 100   \* largest number of discovered and of extracted URLs in SpecTiers
NumPages == 6     \* pages of the remote site in SpecDiscovery
MaxDiscoveryRuns == 2  \* discovery runs started in a behaviour
MaxCap == 1       \* largest max_pages and max_section_urls given to discover_all_urls
MaxURLLen == 4    \* characters of a URL after its "https://" in SpecNormalize
MaxFragLen == 1   \* characters of the fragment given to the second URL

\* ---- configuration (config.py) -----------------------------------------
MAX_RETRIES == 5
MAX_CONCURRENT_REQUESTS == 3
\* CHECKPOINT_EVERY_N_URLS is read from the environment (default 50); the
\* model runs with an interval that a small site reaches
CHECKPOINT_EVERY_N_URLS == 2

URLs == 1..MaxWork

\* the pages of the remote site a discovery run can meet
Pages == 1..NumPages

\* what a fetch can raise: the Exception of line 190 when result.success is
\* false, or what crawler.arun itself raises (line 187)
Errors == {"crawl_failed", "timeout"}
Answers == {"ok"} \cup Errors

\* type(e).__name__ and str(e) of the exception a failing fetch raises
ErrType(e) == IF e = "crawl_failed" THEN "Exception" ELSE "TimeoutError"
ErrMsg(e) == IF e = "crawl_failed" THEN "Crawl failed: error_message" ELSE "timed out"

VARIABLES
    discovered_file,    \* data/discovered_urls.jsonl: sequence of URLs
    extracted_file,     \* data/extracted_sections.jsonl: sequence of CCRSection
    failed_file,        \* data/failed_urls.jsonl: sequence of FailedURL
    clock,              \* logical time: number of runs started
    pc,                 \* "idle", "extracting", "extracted", "crashed",
                        \* "retrying", "retried"
    extracted_urls,     \* SectionExtractor.extracted_urls
    urls_to_process,    \* process_discovered_urls: urls_to_process
    task,               \* per URL: "none", "waiting", "working", "ok", "failed"
    attempts,           \* per URL: tenacity attempt_number of its call
    semaphore,          \* value of the asyncio.Semaphore
    extracted_count,    \* SectionExtractor.extracted_count
    failed_urls,        \* SectionExtractor.failed_urls
    failed_entries,     \* retry pass: failed_entries as loaded
    idx,                \* retry pass: position in urls_to_retry (1-based)
    attempt,            \* retry pass: tenacity attempt_number of the current call
    still_failed,       \* retry pass: still_failed
    pass_fetches,       \* history: fetches per URL made by the current retry pass
    answered,           \* history: per URL, what its fetches answered in this
                        \*          retry pass: "none", an answer, or "mixed"
    answered_prev,      \* history: the same for the retry pass before this one
    second_in_row,      \* history: this retry pass directly follows a completed one
    tracker_pc,         \* CoverageTracker: "new", "discovered", "extracted",
                        \*                  "failed", "calculated"
    tracker_discovered, \* CoverageTracker.discovered_urls
    tracker_extracted,  \* CoverageTracker.extracted_urls
    tracker_failed,     \* CoverageTracker.failed_urls
    stats,              \* the dictionary calculate_coverage returned
    report,             \* CoverageTracker: the report generate_report returned
    coverage_report_file, \* data/coverage_report.md
    console,            \* CoverageTracker: the summary save_report printed
    storage_writable,   \* the data directory accepts writes
    checkpoint_file,    \* checkpoints/url_discovery_checkpoint.json
    discoverer_pc,      \* URLDiscoverer: "idle", "crawling", "done", "interrupted"
    discovered_urls,    \* URLDiscoverer.discovered_urls
    to_visit,           \* discover_all_urls: to_visit
    visited,            \* discover_all_urls: visited
    links,              \* discover_all_urls: links of the page fetched last
    max_pages,          \* discover_all_urls: max_pages (0 stands for None)
    max_section_urls,   \* discover_all_urls: max_section_urls (0 stands for None)
    fetch_count,        \* history: per page, fetches made by the discovery run under way
    restarts,           \* number of discovery runs started
    normalizer_pc,      \* calls of normalize_url made: "none", "first", "both"
    url1,               \* normalize_url: the URL given
    url2,               \* normalize_url: a second URL given
    normalized1,        \* normalize_url(url1)
    normalized2,        \* normalize_url(url2)
    args_retry          \* run_pipeline: args.retry

files == <<discovered_file, extracted_file, failed_file>>
extractor_vars == <<extracted_urls, urls_to_process, task, attempts, semaphore,
                    extracted_count, failed_urls>>
retry_vars == <<failed_entries, idx, attempt, still_failed>>
history == <<pass_fetches, answered, answered_prev, second_in_row>>
tracker_vars == <<tracker_pc, tracker_discovered, tracker_extracted,
                  tracker_failed, stats>>
report_vars == <<report, coverage_report_file, console, storage_writable>>
discoverer_vars == <<checkpoint_file, discoverer_pc, discovered_urls, to_visit,
                     visited, links, max_pages, max_section_urls, fetch_count,
                     restarts>>
normalizer_vars == <<normalizer_pc, url1, url2, normalized1, normalized2>>
pipeline_vars == <<args_retry>>
\* what the extractor, the retry pass and the loaders of the coverage tracker
\* never touch
other_vars == <<report_vars, discoverer_vars, normalizer_vars, pipeline_vars>>
vars == <<discovered_file, extracted_file, failed_file, clock, pc,
          extracted_urls, urls_to_process, task, attempts, semaphore,
          extracted_count, failed_urls, failed_entries, idx, attempt,
          still_failed, pass_fetches, answered, answered_prev, second_in_row,
          tracker_pc, tracker_discovered, tracker_extracted, tracker_failed,
          stats, report, coverage_report_file, console, storage_writable,
          checkpoint_file, discoverer_pc, discovered_urls, to_visit, visited,
          links, max_pages, max_section_urls, fetch_count, restarts,
          normalizer_pc, url1, url2, normalized1, normalized2, args_retry>>

\* ---- helpers -------------------------------------------------------------
Range(s) == {s[i] : i \in DOMAIN s}

RECURSIVE SortedSeq(_)
SortedSeq(S) ==
    IF S = {} THEN << >>
    ELSE LET m == CHOOSE x \in S : \A y \in S : x <= y
         IN <<m>> \o SortedSeq(S \ {m})

Running == pc \in {"extracting", "retrying"}

Max(a, b) == IF a > b THEN a ELSE b

\* ---- models.py -----------------------------------------------------------
CCRSection(u, t) == [source_url |-> u, retrieved_at |-> t]

FailedURL(u, e, rc, t) ==
    [url |-> u, error_type |-> ErrType(e), error_message |-> ErrMsg(e),
     retry_count |-> rc, failed_at |-> t]

\* FailedURL.retry_count default
DefaultRetryCount == 0

\* ---- SectionExtractor ----------------------------------------------------
\* fault: the extracted ledger is not read
load_extracted_urls_none(file) == {}

\* lines 36-49: the source_url of every line of the extracted ledger
load_extracted_urls(file) == {file[i].source_url : i \in DOMAIN file}

\* fault: one attempt too many
stop_after_attempt_late(n) == n > MAX_RETRIES

\* tenacity stop=stop_after_attempt(config.MAX_RETRIES): after attempt n raised
stop_after_attempt(n) == n >= MAX_RETRIES

\* process_discovered_urls, lines 248-257: the discovered URLs not yet
\* extracted, in file order, cut at limit (0 stands for None)
RECURSIVE select_urls(_, _, _, _)
select_urls(file, done, limit, acc) ==
    IF file = << >> THEN acc
    ELSE IF Head(file) \notin done
         THEN LET acc2 == Append(acc, Head(file))
              IN IF limit # 0 /\ Len(acc2) >= limit THEN acc2
                 ELSE select_urls(Tail(file), done, limit, acc2)
         ELSE select_urls(Tail(file), done, limit, acc)

\* fault: the value is not looked at
semaphore_free_always(v) == TRUE

\* asyncio.Semaphore.acquire proceeds only while the value is positive
semaphore_free(v) == v > 0

\* fault: an except clause that is too narrow
except_only_timeout(e) == e = "timeout"

\* process_url, line 288: `except Exception` catches whatever a fetch raises
except_Exception(e) == e \in Errors

\* fault: a FailedURL line for every attempt that raised
failed_lines_each_attempt(u, n, e, t) == << FailedURL(u, e, DefaultRetryCount, t) >>

\* fault: the failure is logged and not written
failed_lines_never(u, n, e, t) == << >>

\* the FailedURL lines process_url writes when attempt n on u raised e:
\* one, and only once tenacity has given up and re-raised
failed_lines(u, n, e, t) ==
    IF stop_after_attempt(n) THEN << FailedURL(u, e, DefaultRetryCount, t) >>
    ELSE << >>

\* stats before calculate_coverage has run
NoStats ==
    [total_discovered |-> 0, total_extracted |-> 0, total_failed |-> 0,
     total_missing |-> 0, coverage_percentage |-> [num |-> 0, den |-> 1],
     missing_urls |-> {}]

\* coverage_report.md before save_report has written it, and the report
\* before generate_report has returned
NoReport == [percentage |-> 0, status |-> << >>]

\* url_discovery_checkpoint.json: absent, a JSON document holding
\* discovered_urls, or text that json.load rejects
NoCheckpoint == [state |-> "absent", urls |-> {}]
Checkpoint(S) == [state |-> "ok", urls |-> S]
TornCheckpoint == [state |-> "corrupt", urls |-> {}]

\* ---- the state after installation: no run has been made ------------------
InitFiles(df, ef, ff) ==
    /\ discovered_file = df
    /\ extracted_file = ef
    /\ failed_file = ff
    /\ clock = 0
    /\ pc = "idle"
    /\ extracted_urls = {}
    /\ urls_to_process = << >>
    /\ task = [u \in URLs |-> "none"]
    /\ attempts = [u \in URLs |-> 0]
    /\ semaphore = MAX_CONCURRENT_REQUESTS
    /\ extracted_count = 0
    /\ failed_urls = << >>
    /\ failed_entries = << >>
    /\ idx = 1
    /\ attempt = 0
    /\ still_failed = << >>
    /\ pass_fetches = [u \in URLs |-> 0]
    /\ answered = [u \in URLs |-> "none"]
    /\ answered_prev = [u \in URLs |-> "none"]
    /\ second_in_row = FALSE
    /\ tracker_pc = "new"
    /\ tracker_discovered = {}
    /\ tracker_extracted = {}
    /\ tracker_failed = << >>
    /\ stats = NoStats

\* no report has been generated, nothing printed
InitReport(writable) ==
    /\ report = NoReport
    /\ coverage_report_file = NoReport
    /\ console = << >>
    /\ storage_writable = writable

\* no discovery run is under way; the checkpoint is as cp
InitDiscoverer(cp) ==
    /\ checkpoint_file = cp
    /\ discoverer_pc = "idle"
    /\ discovered_urls = {}
    /\ to_visit = {}
    /\ visited = {}
    /\ links = {}
    /\ max_pages = 0
    /\ max_section_urls = 0
    /\ fetch_count = [p \in Pages |-> 0]
    /\ restarts = 0

InitNormalizer ==
    /\ normalizer_pc = "none"
    /\ url1 = << >>
    /\ url2 = << >>
    /\ normalized1 = << >>
    /\ normalized2 = << >>

\* discovery has left the URLs of D in the ledger and in the checkpoint
InitWith(D) ==
    /\ InitFiles(SortedSeq(D), << >>, << >>)
    /\ InitReport(TRUE)
    /\ InitDiscoverer(Checkpoint(D))
    /\ InitNormalizer
    /\ args_retry = FALSE

Init == \E k \in 0..MaxWork : InitWith(1..k)

\* ---- extraction run: SectionExtractor.process_discovered_urls -----------

\* SectionExtractor() followed by process_discovered_urls(limit) up to the
\* creation of the tasks
StartExtract(limit) ==
    /\ ~Running
    /\ clock' = clock + 1
    /\ extracted_urls' = load_extracted_urls(extracted_file)
    /\ urls_to_process' = select_urls(discovered_file, extracted_urls', limit, << >>)
    /\ task' = [u \in URLs |->
                  IF u \in Range(urls_to_process') THEN "waiting" ELSE "none"]
    /\ attempts' = [u \in URLs |-> 0]
    /\ semaphore' = MAX_CONCURRENT_REQUESTS
    /\ extracted_count' = 0
    /\ failed_urls' = << >>
    /\ pc' = "extracting"
    /\ failed_entries' = << >>
    /\ idx' = 1
    /\ attempt' = 0
    /\ still_failed' = << >>
    /\ UNCHANGED <<files, history, tracker_vars>>
    /\ UNCHANGED other_vars

\* process_url: async with semaphore
Acquire(u) ==
    /\ pc = "extracting"
    /\ task[u] = "waiting"
    /\ semaphore_free(semaphore)
    /\ semaphore' = semaphore - 1
    /\ task' = [task EXCEPT ![u] = "working"]
    /\ UNCHANGED <<files, clock, pc, extracted_urls, urls_to_process,
                   attempts, extracted_count, failed_urls, retry_vars, history, tracker_vars>>
    /\ UNCHANGED other_vars

\* process_url: one attempt of extract_section(u) completes, answered a
Attempt(u, a) ==
    /\ pc = "extracting"
    /\ task[u] = "working"
    /\ LET n == attempts[u] + 1
       IN /\ attempts' = [attempts EXCEPT ![u] = n]
          /\ IF a = "ok"
             THEN \* lines 274-286
                  /\ extracted_file' = Append(extracted_file, CCRSection(u, clock))
                  /\ extracted_count' = extracted_count + 1
                  /\ task' = [task EXCEPT ![u] = "ok"]
                  /\ semaphore' = semaphore + 1
                  /\ UNCHANGED <<failed_file, failed_urls, pc>>
             ELSE IF ~stop_after_attempt(n)
             THEN \* tenacity waits and calls again
                  /\ failed_file' = failed_file \o failed_lines(u, n, a, clock)
                  /\ UNCHANGED <<extracted_file, extracted_count, task,
                                 semaphore, failed_urls, pc>>
             ELSE IF except_Exception(a)
             THEN \* lines 288-298
                  /\ failed_urls' = Append(failed_urls,
                                           FailedURL(u, a, DefaultRetryCount, clock))
                  /\ failed_file' = failed_file \o failed_lines(u, n, a, clock)
                  /\ task' = [task EXCEPT ![u] = "failed"]
                  /\ semaphore' = semaphore + 1
                  /\ UNCHANGED <<extracted_file, extracted_count, pc>>
             ELSE \* the exception leaves process_url and asyncio.gather
                  /\ pc' = "crashed"
                  /\ task' = [task EXCEPT ![u] = "failed"]
                  /\ semaphore' = semaphore + 1
                  /\ UNCHANGED <<extracted_file, extracted_count, failed_file,
                                 failed_urls>>
    /\ UNCHANGED <<discovered_file, clock, extracted_urls,
                   urls_to_process, retry_vars, history,
                   tracker_vars>>
    /\ UNCHANGED other_vars

\* asyncio.gather returns once every task is done
FinishExtract ==
    /\ pc = "extracting"
    /\ \A u \in URLs : task[u] \notin {"waiting", "working"}
    /\ pc' = "extracted"
    /\ UNCHANGED <<files, clock, extractor_vars, retry_vars, history,
                   tracker_vars>>
    /\ UNCHANGED other_vars

\* ---- retry pass: retry_failed_extractions.main ---------------------------

\* line 63: the retry_count given to an entry that failed again
retry_count_after(entry) == 1

\* fault: the ledger opened in append mode
write_back_appending(old, remaining) == old \o remaining

\* fault: the ledger truncated and nothing written
write_back_empty(old, remaining) == << >>

\* lines 68-70: open(FAILED_URLS_FILE, "w") and one line per still-failed URL
write_back(old, remaining) == remaining

\* fault: a failure of the retry is not recorded
still_failed_dropped(sf, entry, e, t) == sf

\* fault: a failure of the retry recorded twice
still_failed_append_twice(sf, entry, e, t) ==
    sf \o << FailedURL(entry.url, e, 1, t), FailedURL(entry.url, e, 1, t) >>

\* lines 56-65: the except branch of the loop
still_failed_append(sf, entry, e, t) ==
    Append(sf, FailedURL(entry.url, e, retry_count_after(entry), t))

\* history: an answer of u joins what u answered before in the pass
Merge(old, a) == IF old = "none" \/ old = a THEN a ELSE "mixed"

NoAnswers == [u \in URLs |-> "none"]

\* lines 23-44: load the failure ledger; return when there is nothing to
\* retry, else construct the extractor
StartRetry ==
    /\ ~Running
    /\ clock' = clock + 1
    /\ failed_entries' = failed_file
    /\ idx' = 1
    /\ attempt' = 0
    /\ still_failed' = << >>
    /\ urls_to_process' = << >>
    /\ task' = [u \in URLs |-> "none"]
    /\ attempts' = [u \in URLs |-> 0]
    /\ semaphore' = MAX_CONCURRENT_REQUESTS
    /\ extracted_count' = 0
    /\ failed_urls' = << >>
    /\ IF failed_file = << >>
       THEN /\ pc' = "retried"
            /\ extracted_urls' = {}
       ELSE /\ pc' = "retrying"
            /\ extracted_urls' = load_extracted_urls(extracted_file)
    /\ pass_fetches' = [u \in URLs |-> 0]
    /\ second_in_row' = (pc = "retried")
    /\ answered_prev' = IF pc = "retried" THEN answered ELSE NoAnswers
    /\ answered' = NoAnswers
    /\ UNCHANGED <<files, tracker_vars>>
    /\ UNCHANGED other_vars

\* lines 47-65: one attempt of extract_section on urls_to_retry[idx]
\* completes, answered a
RetryAttempt(a) ==
    /\ pc = "retrying"
    /\ idx <= Len(failed_entries)
    /\ LET entry == failed_entries[idx]
           u == entry.url
           n == attempt + 1
       IN /\ pass_fetches' = [pass_fetches EXCEPT ![u] = @ + 1]
          /\ answered' = [answered EXCEPT ![u] = Merge(@, a)]
          /\ IF a = "ok"
             THEN /\ extracted_file' = Append(extracted_file, CCRSection(u, clock))
                  /\ extracted_urls' = extracted_urls \cup {u}
                  /\ idx' = idx + 1
                  /\ attempt' = 0
                  /\ UNCHANGED still_failed
             ELSE IF ~stop_after_attempt(n)
             THEN /\ attempt' = n
                  /\ UNCHANGED <<extracted_file, extracted_urls, idx, still_failed>>
             ELSE /\ still_failed' = still_failed_append(still_failed, entry, a, clock)
                  /\ idx' = idx + 1
                  /\ attempt' = 0
                  /\ UNCHANGED <<extracted_file, extracted_urls>>
    /\ UNCHANGED <<discovered_file, failed_file, clock, pc, urls_to_process,
                   task, attempts, semaphore, extracted_count, failed_urls,
                   failed_entries, answered_prev, second_in_row, tracker_vars>>
    /\ UNCHANGED other_vars

\* lines 67-74: write back the remaining failures
FinishRetry ==
    /\ pc = "retrying"
    /\ idx > Len(failed_entries)
    /\ failed_file' = write_back(failed_file, still_failed)
    /\ pc' = "retried"
    /\ UNCHANGED <<discovered_file, extracted_file, clock, extractor_vars,
                   retry_vars, history, tracker_vars>>
    /\ UNCHANGED other_vars

\* ---- specifications ------------------------------------------------------

\* another run may start: the work done so far leaves room for it
MayStart ==
    /\ clock < MaxWork
    /\ (clock + 1) * Len(discovered_file) <= MaxWork

\* the ledger life cycle: extraction runs and retry passes in any order
Next ==
    \/ \E limit \in 0..MaxLimit : MayStart /\ StartExtract(limit)
    \/ \E u \in URLs : Acquire(u)
    \/ \E u \in URLs, a \in Answers : Attempt(u, a)
    \/ FinishExtract
    \/ MayStart /\ StartRetry
    \/ \E a \in Answers : RetryAttempt(a)
    \/ FinishRetry

Spec == Init /\ [][Next]_vars

\* ---- CoverageTracker (coverage_tracker.py) -------------------------------

\* a URL that carries a '#chunkN' suffix is written ChunkBase + u
ChunkBase == 100

\* load_extracted_urls, lines 56-58: url.split('#chunk')[0]
strip_chunk(u) == IF u > ChunkBase THEN u - ChunkBase ELSE u

\* load_failed_urls, lines 69-77: a dictionary keyed by URL, a later line
\* of the ledger replacing an earlier one
RECURSIVE load_failed_dict(_)
load_failed_dict(file) ==
    IF file = << >> THEN << >>
    ELSE LET e == file[Len(file)]
             d == load_failed_dict(SubSeq(file, 1, Len(file) - 1))
             v == [error_type |-> e.error_type,
                   error_message |-> e.error_message,
                   retry_count |-> e.retry_count]
         IN [u \in DOMAIN d \cup {e.url} |-> IF u = e.url THEN v ELSE d[u]]

\* percentages are exact fractions num/den
Frac(n, d) == [num |-> n, den |-> d]
FracEq(a, b) == a.num * b.den = b.num * a.den

\* variant: |E| / max(|D|, 1) * 100
coverage_percentage_max(total_extracted, total_discovered) ==
    Frac(total_extracted * 100,
         IF total_discovered > 1 THEN total_discovered ELSE 1)

\* line 93
coverage_percentage(total_extracted, total_discovered) ==
    IF total_discovered > 0
    THEN Frac(total_extracted * 100, total_discovered)
    ELSE Frac(0, 1)

\* lines 86-102
calculate_coverage(discovered, extracted, failed) ==
    LET missing_urls == discovered \ extracted
    IN [total_discovered |-> Cardinality(discovered),
        total_extracted |-> Cardinality(extracted),
        total_failed |-> Cardinality(DOMAIN failed),
        total_missing |-> Cardinality(missing_urls),
        coverage_percentage |->
            coverage_percentage(Cardinality(extracted), Cardinality(discovered)),
        missing_urls |-> missing_urls]

\* CoverageTracker.load_discovered_urls
LoadDiscovered ==
    /\ tracker_pc = "new"
    /\ tracker_discovered' = tracker_discovered \cup Range(discovered_file)
    /\ tracker_pc' = "discovered"
    /\ UNCHANGED <<files, clock, pc, extractor_vars, retry_vars, history,
                   tracker_extracted, tracker_failed, stats>>
    /\ UNCHANGED other_vars

\* CoverageTracker.load_extracted_urls
LoadExtracted ==
    /\ tracker_pc = "discovered"
    /\ tracker_extracted' = tracker_extracted \cup
           {strip_chunk(extracted_file[i].source_url) : i \in DOMAIN extracted_file}
    /\ tracker_pc' = "extracted"
    /\ UNCHANGED <<files, clock, pc, extractor_vars, retry_vars, history,
                   tracker_discovered, tracker_failed, stats>>
    /\ UNCHANGED other_vars

\* CoverageTracker.load_failed_urls
LoadFailed ==
    /\ tracker_pc = "extracted"
    /\ tracker_failed' = load_failed_dict(failed_file)
    /\ tracker_pc' = "failed"
    /\ UNCHANGED <<files, clock, pc, extractor_vars, retry_vars, history,
                   tracker_discovered, tracker_extracted, stats>>
    /\ UNCHANGED other_vars

\* generate_report, line 112: stats = self.calculate_coverage()
Calculate ==
    /\ tracker_pc = "failed"
    /\ stats' = calculate_coverage(tracker_discovered, tracker_extracted,
                                   tracker_failed)
    /\ tracker_pc' = "calculated"
    /\ UNCHANGED <<files, clock, pc, extractor_vars, retry_vars, history,
                   tracker_discovered, tracker_extracted, tracker_failed>>
    /\ UNCHANGED other_vars

\* cp >= n, for a percentage cp held as a fraction
AtLeast(cp, n) == cp.num >= n * cp.den

\* fault: independent ifs in place of the if / elif chain
status_lines_no_elif(cp) ==
    (IF AtLeast(cp, 95) THEN <<"excellent">> ELSE << >>) \o
    (IF AtLeast(cp, 90) THEN <<"good">> ELSE << >>) \o
    (IF AtLeast(cp, 80) THEN <<"acceptable">> ELSE <<"insufficient">>)

\* generate_report, lines 131-138: the lines of the section "Coverage Status"
status_lines(cp) ==
    IF AtLeast(cp, 95) THEN <<"excellent">>
    ELSE IF AtLeast(cp, 90) THEN <<"good">>
    ELSE IF AtLeast(cp, 80) THEN <<"acceptable">>
    ELSE <<"insufficient">>

\* f"{x:.2f}", lines 124 and 208: x in hundredths, rounded half to even
format_2f(x) ==
    LET q == (x.num * 100) \div x.den
        r == (x.num * 100) % x.den
    IN IF 2 * r > x.den \/ (2 * r = x.den /\ q % 2 = 1) THEN q + 1 ELSE q

\* generate_report, lines 113-190: the report string, of which the model
\* keeps the percentage of the summary table and the status lines
GenerateReport ==
    /\ tracker_pc = "calculated"
    /\ report' = [percentage |-> format_2f(stats.coverage_percentage),
                  status |-> status_lines(stats.coverage_percentage)]
    /\ tracker_pc' = "generated"
    /\ UNCHANGED <<files, clock, pc, extractor_vars, retry_vars, history,
                   tracker_discovered, tracker_extracted, tracker_failed, stats,
                   coverage_report_file, console, storage_writable,
                   discoverer_vars, normalizer_vars, pipeline_vars>>

\* config.py, lines 49-50
FAILED_URLS_FILE == "failed_urls.jsonl"
COVERAGE_REPORT_FILE == "coverage_report.md"

\* fault: the report written over the failure ledger
save_report_opens_ledger == FAILED_URLS_FILE

\* save_report, line 196: the one file it opens for writing
save_report_opens == COVERAGE_REPORT_FILE

\* save_report, lines 203-211: the summary printed on the console
summary(st) ==
    [discovered |-> st.total_discovered, extracted |-> st.total_extracted,
     percentage |-> format_2f(st.coverage_percentage),
     failed |-> st.total_failed, missing |-> st.total_missing]

\* save_report, lines 196-211: open(..., 'w') raises OSError on storage that
\* is not writable, and nothing in save_report or its callers catches it
SaveReport ==
    /\ tracker_pc = "generated"
    /\ IF storage_writable
       THEN /\ coverage_report_file' =
                  IF save_report_opens = COVERAGE_REPORT_FILE THEN report
                  ELSE coverage_report_file
            /\ failed_file' =
                  IF save_report_opens = FAILED_URLS_FILE THEN << >>
                  ELSE failed_file
            /\ console' = Append(console,
                   summary(calculate_coverage(tracker_discovered,
                                              tracker_extracted, tracker_failed)))
            /\ tracker_pc' = "saved"
       ELSE /\ tracker_pc' = "crashed"
            /\ UNCHANGED <<coverage_report_file, failed_file, console>>
    /\ UNCHANGED <<discovered_file, extracted_file, clock, pc, extractor_vars,
                   retry_vars, history, tracker_discovered, tracker_extracted,
                   tracker_failed, stats, report, storage_writable,
                   discoverer_vars, normalizer_vars, pipeline_vars>>

\* the coverage tracker run over ledgers of any content: each file holds
\* lines for a subset of the URLs, the extracted ledger also lines whose
\* source_url carries a '#chunk' suffix
CovURLs == 1..NumCovURLs

InitCoverage ==
    \E D \in SUBSET CovURLs, E \in SUBSET CovURLs, C \in SUBSET CovURLs,
       F \in SUBSET CovURLs :
        LET plain == SortedSeq(E)
            chunked == SortedSeq(C)
            failing == SortedSeq(F)
        IN /\ InitFiles(SortedSeq(D),
                        [i \in 1..Len(plain) |-> CCRSection(plain[i], 0)] \o
                        [i \in 1..Len(chunked) |->
                            CCRSection(ChunkBase + chunked[i], 0)],
                        [i \in 1..Len(failing) |->
                            FailedURL(failing[i], "crawl_failed", DefaultRetryCount, 0)])
           /\ \E writable \in BOOLEAN : InitReport(writable)
           /\ InitDiscoverer(Checkpoint(D))
           /\ InitNormalizer
           /\ args_retry = FALSE

\* CoverageTracker().save_report()
NextCoverage ==
    \/ LoadDiscovered
    \/ LoadExtracted
    \/ LoadFailed
    \/ Calculate
    \/ GenerateReport
    \/ SaveReport

SpecCoverage == InitCoverage /\ [][NextCoverage]_vars

\* the coverage tracker run over ledgers of d discovered URLs of which the
\* first e are extracted, or of e extracted URLs of which the first d are
\* discovered
InitTiers ==
    \E d \in 0..MaxCount, e \in 0..MaxCount :
        /\ InitFiles([i \in 1..d |-> i], [i \in 1..e |-> CCRSection(i, 0)], << >>)
        /\ InitReport(TRUE)
        /\ InitDiscoverer(Checkpoint(1..d))
        /\ InitNormalizer
        /\ args_retry = FALSE

SpecTiers == InitTiers /\ [][NextCoverage]_vars

\* ---- URLDiscoverer.normalize_url (crawler/url_discoverer.py) -------------

\* A URL is the sequence of the characters that follow "https://": a letter
\* and the delimiters urlparse looks for.
Chars == {"a", "/", "?", "#", ";"}

Strings(n) == UNION {[1..k -> Chars] : k \in 0..n}

\* str.find: the first position of s at or after from that holds a
\* character of cs, 0 when there is none
RECURSIVE find(_, _, _)
find(s, cs, from) ==
    IF from > Len(s) THEN 0
    ELSE IF s[from] \in cs THEN from
    ELSE find(s, cs, from + 1)

\* str.rfind: the last position of s that holds c, 0 when there is none
RECURSIVE rfind(_, _, _)
rfind(s, c, upto) ==
    IF upto = 0 THEN 0
    ELSE IF s[upto] = c THEN upto
    ELSE rfind(s, c, upto - 1)

\* fault: the fragment taken after the last '#'
fragment_start_last(s) == rfind(s, "#", Len(s))

\* urlsplit: url.split('#', 1) cuts at the first '#'
fragment_start(s) == find(s, {"#"}, 1)

\* urllib.parse._splitparams applied to the path: the params start at the
\* first ';' of the last segment
splitparams(path) ==
    LET slash == rfind(path, "/", Len(path))
        i == find(path, {";"}, IF slash = 0 THEN 1 ELSE slash)
    IN IF i = 0 THEN path ELSE SubSeq(path, 1, i - 1)

\* urlparse(url), line 63: the netloc runs up to the first of '/', '?', '#';
\* of the rest the fragment is cut first, then the query, then the params
urlparse(s) ==
    LET i == find(s, {"/", "?", "#"}, 1)
        netloc == IF i = 0 THEN s ELSE SubSeq(s, 1, i - 1)
        rest == IF i = 0 THEN << >> ELSE SubSeq(s, i, Len(s))
        h == fragment_start(rest)
        nofrag == IF h = 0 THEN rest ELSE SubSeq(rest, 1, h - 1)
        q == find(nofrag, {"?"}, 1)
    IN [netloc |-> netloc,
        path |-> splitparams(IF q = 0 THEN nofrag ELSE SubSeq(nofrag, 1, q - 1)),
        query |-> IF q = 0 THEN << >> ELSE SubSeq(nofrag, q + 1, Len(nofrag)),
        fragment |-> IF h = 0 THEN << >> ELSE SubSeq(rest, h + 1, Len(rest))]

\* normalize_url, lines 63-68: scheme://netloc path, then '?' query when the
\* query is not empty
normalize_url(s) ==
    LET parsed == urlparse(s)
    IN parsed.netloc \o parsed.path \o
       (IF parsed.query # << >> THEN <<"?">> \o parsed.query ELSE << >>)

\* url without its fragment: what precedes the first '#'
defrag(s) ==
    LET h == find(s, {"#"}, 1)
    IN IF h = 0 THEN s ELSE SubSeq(s, 1, h - 1)

\* the ways to give a URL a fragment: none, or '#' and up to MaxFragLen
\* characters
Fragments == {<< >>} \cup {<<"#">> \o f : f \in Strings(MaxFragLen)}

NormalizeFirst ==
    /\ normalizer_pc = "none"
    /\ normalized1' = normalize_url(url1)
    /\ normalizer_pc' = "first"
    /\ UNCHANGED <<url1, url2, normalized2>>
    /\ UNCHANGED <<files, clock, pc, extractor_vars, retry_vars, history,
                   tracker_vars, report_vars, discoverer_vars, pipeline_vars>>

NormalizeSecond ==
    /\ normalizer_pc = "first"
    /\ normalized2' = normalize_url(url2)
    /\ normalizer_pc' = "both"
    /\ UNCHANGED <<url1, url2, normalized1>>
    /\ UNCHANGED <<files, clock, pc, extractor_vars, retry_vars, history,
                   tracker_vars, report_vars, discoverer_vars, pipeline_vars>>

\* two URLs that differ in their fragment at most
InitNormalize ==
    \E s \in Strings(MaxURLLen), f \in Fragments :
        /\ InitFiles(<< >>, << >>, << >>)
        /\ InitReport(TRUE)
        /\ InitDiscoverer(NoCheckpoint)
        /\ args_retry = FALSE
        /\ normalizer_pc = "none"
        /\ url1 = s
        /\ url2 = defrag(s) \o f
        /\ normalized1 = << >>
        /\ normalized2 = << >>

NextNormalize ==
    \/ NormalizeFirst
    \/ NormalizeSecond

SpecNormalize == InitNormalize /\ [][NextNormalize]_vars

\* ---- URLDiscoverer (crawler/url_discoverer.py) ---------------------------

\* The pages of the remote site, by the substrings is_section_url,
\* is_toc_or_browse_url and line 193 look for in the lower-cased URL
\* ("base" stands for config.CCR_BASE_URL):
\*   1  .../calregs/Document/I1?viewType=FullText   section, full text view
\*   2  .../calregs/Document/I2                     section
\*   3  .../calregs/Index/Section-5                 section by the words of its path
\*   4  https://govt.westlaw.com/calregs            the root
\*   5  .../calregs/Browse/Home/...?guid=I5         table of contents
\*   6  .../calregs/Index?guid=I6                   hierarchy node
\*   7  https://next.westlaw.com/help/calregs       another site
\*   8  .../calregs/Browse/Section-Index            table of contents
url_text(p) ==
    CASE p = 1 -> {"/calregs/document/", "viewtype=fulltext", "/calregs/",
                   "document", "calregs", "base"}
      [] p = 2 -> {"/calregs/document/", "/calregs/", "document", "calregs", "base"}
      [] p = 3 -> {"/calregs/", "section", "calregs", "base"}
      [] p = 4 -> {"calregs", "base"}
      [] p = 5 -> {"/calregs/browse/", "browse", "/calregs/", "calregs", "guid=", "base"}
      [] p = 6 -> {"/calregs/", "calregs", "guid=", "base"}
      [] p = 7 -> {"calregs"}
      [] OTHER -> {"/calregs/browse/", "browse", "/calregs/", "section", "calregs", "base"}

\* config.py, line 29
CCR_BASE_URL == 4

\* fault: only the full text view of a document counts as a section
is_section_url_fulltext_only(p) ==
    "/calregs/document/" \in url_text(p) /\ "viewtype=fulltext" \in url_text(p)

\* is_section_url, lines 75-84
is_section_url(p) ==
    LET u == url_text(p)
    IN IF "/calregs/document/" \in u /\ "viewtype=fulltext" \in u THEN TRUE
       ELSE IF "/calregs/document/" \in u THEN TRUE
       ELSE IF "/calregs/" \in u /\ ("document" \in u \/ "section" \in u)
               /\ "browse" \notin u THEN TRUE
       ELSE FALSE

\* is_toc_or_browse_url, lines 88-91
is_toc_or_browse_url(p) ==
    LET u == url_text(p)
    IN IF "/calregs/document/" \in u THEN FALSE
       ELSE "/calregs/browse/" \in u \/ ("calregs" \in u /\ "guid=" \in u)

\* line 193: the elif that sends a link to the frontier
joins_frontier(p) ==
    is_toc_or_browse_url(p) \/ ("base" \in url_text(p) /\ "calregs" \in url_text(p))

\* fault: the visited set is not looked at
already_visited_never(p, seen) == FALSE

\* lines 178 and 187: `current_url in visited`, `link in visited`
already_visited(p, seen) == p \in seen

\* fault: every link joins discovered_urls, whatever its kind
section_links_unclassified(found, seen) ==
    {l \in found : ~already_visited(l, seen)}

\* lines 186-192: the links of a page that join discovered_urls
section_links(found, seen) ==
    {l \in found : ~already_visited(l, seen) /\ is_section_url(l)}

\* fault: a link joins to_visit whether or not it was visited
frontier_links_revisited(found, seen) ==
    {l \in found : ~is_section_url(l) /\ joins_frontier(l)}

\* lines 186-194: the links of a page that join to_visit
frontier_links(found, seen) ==
    {l \in found : ~already_visited(l, seen) /\ ~is_section_url(l)
                    /\ joins_frontier(l)}

\* history: one more fetch of a page; the count stops at "more than once"
Tally(n) == IF n < 2 THEN n + 1 ELSE n

\* fault: the checkpoint is not read
load_checkpoint_none(cp) == {}

\* load_checkpoint, lines 37-44: a checkpoint that is absent or that
\* json.load rejects leaves discovered_urls empty
load_checkpoint(cp) == IF cp.state = "ok" THEN cp.urls ELSE {}

\* the lines of the ledger a write has left when it was cut short: any
\* proper prefix of what save_discovered_urls writes
TornLedgers(S) == {SubSeq(SortedSeq(S), 1, k) : k \in 0..(Cardinality(S) - 1)}

\* fault: the ledger opened in append mode
save_discovered_urls_appending(old, S) == old \o SortedSeq(S)

\* save_discovered_urls, lines 209-212: open(..., 'w') and one line for
\* each url in sorted(self.discovered_urls)
save_discovered_urls(old, S) == SortedSeq(S)

\* fault: the caps compared with > in place of >=
cap_reached_late ==
    \/ max_pages # 0 /\ Cardinality(visited) > max_pages
    \/ max_section_urls # 0 /\ Cardinality(discovered_urls) > max_section_urls

\* lines 169-174: a cap that is set has been reached
cap_reached ==
    \/ max_pages # 0 /\ Cardinality(visited) >= max_pages
    \/ max_section_urls # 0 /\ Cardinality(discovered_urls) >= max_section_urls

\* save_checkpoint() and save_discovered_urls() of a discovered set S, lines
\* 46-56 and 206-215; cut tells where the process is killed: "none", in the
\* write of the checkpoint, or in the write of the ledger
Save(S, cut) ==
    /\ checkpoint_file' = IF cut = "checkpoint" THEN TornCheckpoint ELSE Checkpoint(S)
    /\ IF cut = "none" THEN discovered_file' = save_discovered_urls(discovered_file, S)
       ELSE IF cut = "checkpoint" THEN UNCHANGED discovered_file
       ELSE discovered_file' \in TornLedgers(S)

\* the local variables of discover_all_urls are gone, and with them the
\* history of the run
DropLocals ==
    /\ to_visit' = {}
    /\ visited' = {}
    /\ links' = {}
    /\ fetch_count' = [p \in Pages |-> 0]

ledger_side == <<extracted_file, failed_file, clock, pc, extractor_vars,
                 retry_vars, history, tracker_vars, report_vars,
                 normalizer_vars, pipeline_vars>>

\* URLDiscoverer() and discover_all_urls(max_pages, max_section_urls) up to
\* the loop, lines 30-33 and 155-167
StartDiscovery(mp, ms) ==
    /\ discoverer_pc # "crawling"
    /\ restarts < MaxDiscoveryRuns
    /\ restarts' = restarts + 1
    /\ discovered_urls' = load_checkpoint(checkpoint_file)
    /\ to_visit' = {CCR_BASE_URL}
    /\ visited' = {}
    /\ links' = {}
    /\ max_pages' = mp
    /\ max_section_urls' = ms
    /\ fetch_count' = [p \in Pages |-> 0]
    /\ discoverer_pc' = "crawling"
    /\ UNCHANGED <<checkpoint_file, discovered_file, ledger_side>>

\* one iteration of the loop, lines 168-198: current_url is popped; unless
\* it was visited, crawl_page fetches it and returns found (nothing when
\* the fetch failed), and its links are classified
Visit(current_url, found, cut) ==
    /\ discoverer_pc = "crawling"
    /\ ~cap_reached
    /\ current_url \in to_visit
    /\ IF already_visited(current_url, visited)
       THEN /\ cut = "none"
            /\ to_visit' = to_visit \ {current_url}
            /\ UNCHANGED <<visited, links, discovered_urls, fetch_count,
                           checkpoint_file, discovered_file, discoverer_pc>>
       ELSE /\ visited' = visited \cup {current_url}
            /\ fetch_count' = [fetch_count EXCEPT ![current_url] = Tally(@)]
            /\ links' = found
            /\ discovered_urls' = discovered_urls \cup section_links(found, visited')
            /\ to_visit' = (to_visit \ {current_url}) \cup
                              frontier_links(found, visited')
            /\ IF Cardinality(visited') % CHECKPOINT_EVERY_N_URLS = 0
               THEN /\ Save(discovered_urls', cut)
                    /\ discoverer_pc' =
                          IF cut = "none" THEN "crawling" ELSE "interrupted"
               ELSE /\ cut = "none"
                    /\ UNCHANGED <<checkpoint_file, discovered_file, discoverer_pc>>
    /\ UNCHANGED <<max_pages, max_section_urls, restarts, ledger_side>>

\* lines 168-204: the loop ends, with the frontier empty or at a cap; the
\* final save_checkpoint() and save_discovered_urls()
FinishDiscovery(cut) ==
    /\ discoverer_pc = "crawling"
    /\ to_visit = {} \/ cap_reached
    /\ Save(discovered_urls, cut)
    /\ discoverer_pc' = IF cut = "none" THEN "done" ELSE "interrupted"
    /\ DropLocals
    /\ UNCHANGED <<discovered_urls, max_pages, max_section_urls, restarts,
                   ledger_side>>

\* the process is killed between two iterations of the loop
InterruptDiscovery ==
    /\ discoverer_pc = "crawling"
    /\ discoverer_pc' = "interrupted"
    /\ DropLocals
    /\ UNCHANGED <<checkpoint_file, discovered_file, discovered_urls, max_pages,
                   max_section_urls, restarts, ledger_side>>

\* the state after installation: no ledger, no checkpoint
InitDiscovery ==
    /\ InitFiles(<< >>, << >>, << >>)
    /\ InitReport(TRUE)
    /\ InitDiscoverer(NoCheckpoint)
    /\ InitNormalizer
    /\ args_retry = FALSE

Caps == 0..MaxCap

\* discovery runs that are left to complete
NextDiscovery ==
    \/ \E mp \in Caps, ms \in Caps : StartDiscovery(mp, ms)
    \/ \E u \in Pages, found \in SUBSET Pages : Visit(u, found, "none")
    \/ FinishDiscovery("none")

SpecDiscovery == InitDiscovery /\ [][NextDiscovery]_vars /\ WF_vars(NextDiscovery)

\* one call of discover_all_urls from its first line to its return, with any
\* caps; the loop of lines 168-198 runs an iteration whenever it can
NextCrawl ==
    \/ \E mp \in Caps, ms \in Caps : restarts = 0 /\ StartDiscovery(mp, ms)
    \/ \E u \in Pages, found \in SUBSET Pages : Visit(u, found, "none")
    \/ FinishDiscovery("none")

SpecCrawl == InitDiscovery /\ [][NextCrawl]_vars /\ WF_vars(NextCrawl)

\* discovery runs as run_pipeline starts them, without caps, that may be
\* killed at any point, also within a write
NextRestart ==
    \/ StartDiscovery(0, 0)
    \/ \E u \in Pages, found \in SUBSET Pages,
          cut \in {"none", "checkpoint", "ledger"} : Visit(u, found, cut)
    \/ \E cut \in {"none", "checkpoint", "ledger"} : FinishDiscovery(cut)
    \/ InterruptDiscovery

SpecRestart == InitDiscovery /\ [][NextRestart]_vars

\* ---- the full pipeline: run_pipeline.main, lines 89-114 -------------------

\* line 100: args.retry and config.FAILED_URLS_FILE.exists(); the failure
\* ledger exists once a FailedURL was appended to it
retry_wanted == args_retry /\ failed_file # << >>

\* fault: the coverage stage does not wait for the stages before it
reaches_coverage_early == discoverer_pc = "done"

\* lines 98-107: run_extract() has returned and, where it was wanted, the
\* retry pass too
reaches_coverage ==
    \/ pc = "extracted" /\ ~retry_wanted
    \/ pc = "retried"

\* the pages of the site the pipeline crawls: the extraction stage and the
\* retry pass are two runs over the sections discovered, so MaxWork leaves
\* room for MaxWork \div 2 sections
PipelineSite == {p \in Pages : is_section_url(p) => p <= MaxWork \div 2}

\* a first run on a fresh installation, with or without --retry
InitPipeline ==
    /\ InitFiles(<< >>, << >>, << >>)
    /\ InitReport(TRUE)
    /\ InitDiscoverer(NoCheckpoint)
    /\ InitNormalizer
    /\ args_retry \in BOOLEAN

NextPipeline ==
    \* [1/3] run_discover()
    \/ restarts = 0 /\ StartDiscovery(0, 0)
    \/ \E u \in Pages, found \in SUBSET PipelineSite : Visit(u, found, "none")
    \/ FinishDiscovery("none")
    \* [2/3] run_extract()
    \/ discoverer_pc = "done" /\ pc = "idle" /\ StartExtract(0)
    \/ \E u \in URLs : Acquire(u)
    \/ \E u \in URLs, a \in Answers : Attempt(u, a)
    \/ FinishExtract
    \* [2b] retry_failed_extractions.main()
    \/ pc = "extracted" /\ retry_wanted /\ StartRetry
    \/ \E a \in Answers : RetryAttempt(a)
    \/ FinishRetry
    \* [3/3] run_coverage()
    \/ reaches_coverage /\ LoadDiscovered
    \/ LoadExtracted
    \/ LoadFailed
    \/ Calculate
    \/ GenerateReport
    \/ SaveReport

SpecPipeline == InitPipeline /\ [][NextPipeline]_vars /\ WF_vars(NextPipeline)

\* ---- discovery, extraction and retry over the same ledgers ---------------

\* the part of the site these runs crawl: the root, the table of contents
\* and the sections the extraction has room for
LifecycleSite ==
    {p \in PipelineSite : \/ is_section_url(p)
                          \/ p = CCR_BASE_URL
                          \/ "/calregs/browse/" \in url_text(p)}

\* one more run may start: discovery runs count as work too, so that over k
\* discovered URLs at most MaxWork \div k runs of any kind are made
LifecycleMayStart ==
    /\ discoverer_pc # "crawling"
    /\ ~Running
    /\ (clock + restarts + 1) * Max(Len(discovered_file), 1) <= MaxWork

\* discovery runs (url_discoverer.main), extraction runs
\* (section_extractor.main) and retry passes (retry_failed_extractions.main)
\* started one after the other in any order, each run to its end
NextLifecycle ==
    \/ LifecycleMayStart /\ StartDiscovery(0, 0)
    \/ \E u \in Pages, found \in SUBSET LifecycleSite : Visit(u, found, "none")
    \/ FinishDiscovery("none")
    \/ LifecycleMayStart /\ StartExtract(0)
    \/ \E u \in URLs : Acquire(u)
    \/ \E u \in URLs, a \in Answers : Attempt(u, a)
    \/ FinishExtract
    \/ LifecycleMayStart /\ StartRetry
    \/ \E a \in Answers : RetryAttempt(a)
    \/ FinishRetry

SpecLifecycle == InitPipeline /\ [][NextLifecycle]_vars

\* ---- SimpleSectionExtractor (crawler/simple_section_extractor.py) --------

\* extract_section, lines 56-64: the dictionary of an extracted section
section_data(u, t) == [section_url |-> u, retrieved_at |-> t]

\* process_urls, line 88: urls[:max_sections] (0 stands for None)
first_urls(urls, max_sections) ==
    IF max_sections = 0 THEN urls
    ELSE SubSeq(urls, 1, IF max_sections < Len(urls) THEN max_sections ELSE Len(urls))

\* lines 88-98: the sections of the URLs whose fetch answered "ok", in the
\* order of urls; extract_section returns None for the others
RECURSIVE extracted_sections(_, _, _)
extracted_sections(urls, answers, t) ==
    IF urls = << >> THEN << >>
    ELSE (IF Head(answers) = "ok" THEN <<section_data(Head(urls), t)>> ELSE << >>)
         \o extracted_sections(Tail(urls), Tail(answers), t)

\* SimpleSectionExtractor().process_urls(max_sections), lines 73-113: every
\* URL of the discovered ledger is fetched once, answers[i] being what the
\* i-th fetch gave, and the extracted ledger is opened with 'w' and written
\* from the sections of this run; failed_count, which is only printed, is
\* left out
SimpleProcessURLs(max_sections, answers) ==
    /\ ~Running
    /\ LET urls == first_urls(discovered_file, max_sections)
           sections == extracted_sections(urls, answers, clock + 1)
       IN /\ Len(answers) = Len(urls)
          /\ clock' = clock + 1
          /\ extracted_file' = sections
          /\ extracted_count' = Len(sections)
    /\ pc' = "idle"
    /\ UNCHANGED <<discovered_file, failed_file, extracted_urls, urls_to_process,
                   task, attempts, semaphore, failed_urls, retry_vars, history,
                   tracker_vars>>
    /\ UNCHANGED other_vars

\* ledgers as discovery and an extraction run of SectionExtractor left them:
\* k discovered URLs, some of them extracted
InitSimple ==
    \E k \in 0..MaxWork, E \in SUBSET (1..MaxWork) :
        /\ E \subseteq 1..k
        /\ InitFiles(SortedSeq(1..k),
                     [i \in 1..Cardinality(E) |-> CCRSection(SortedSeq(E)[i], 0)],
                     << >>)
        /\ InitReport(TRUE)
        /\ InitDiscoverer(Checkpoint(1..k))
        /\ InitNormalizer
        /\ args_retry = FALSE

\* up to MaxWork runs of simple_section_extractor.main and of process_urls
\* with a limit
NextSimple ==
    \E max_sections \in 0..MaxLimit :
        \E answers \in UNION {[1..n -> Answers] : n \in 0..MaxWork} :
            clock < MaxWork /\ SimpleProcessURLs(max_sections, answers)

SpecSimple == InitSimple /\ [][NextSimple]_vars

\* ---- extraction followed by retry passes ---------------------------------

\* run_extract() of run_pipeline, without limit, then retry passes and
\* further extraction runs in any order: retry_failed_extractions is run
\* after section_extractor
NextAccount ==
    \/ MayStart /\ StartExtract(0)
    \/ \E u \in URLs : Acquire(u)
    \/ \E u \in URLs, a \in Answers : Attempt(u, a)
    \/ FinishExtract
    \/ pc \in {"extracted", "retried"} /\ MayStart /\ StartRetry
    \/ \E a \in Answers : RetryAttempt(a)
    \/ FinishRetry

\* discovery has left up to MaxWork - 1 URLs in the ledger
InitAccount == \E k \in 0..(MaxWork - 1) : InitWith(1..k)

SpecAccount == InitAccount /\ [][NextAccount]_vars

\* ---- links that lead off the site ----------------------------------------

\* a link extract_links_from_page returns (line 107: 'calregs' and
\* 'westlaw.com' are in it) that is not under config.CCR_BASE_URL: page 7 of
\* the table of url_text
OtherSite == 7

LinkPages == Pages \cup {OtherSite}

\* one run of url_discoverer.main without caps, on a site whose pages also
\* link to OtherSite
NextLinks ==
    \/ restarts = 0 /\ StartDiscovery(0, 0)
    \/ \E u \in Pages, found \in SUBSET LinkPages : Visit(u, found, "none")
    \/ FinishDiscovery("none")

SpecLinks == InitDiscovery /\ [][NextLinks]_vars

\* ---- SimpleURLDiscoverer (crawler/simple_url_discoverer.py) ---------------

\* discover_urls, line 139: the interval is the literal 20, whatever
\* config.CHECKPOINT_EVERY_N_URLS says; the model runs with an interval that
\* a small site reaches
SIMPLE_CHECKPOINT_EVERY == 2

\* SimpleURLDiscoverer.is_section_url, lines 68-70: '/document/' and
\* 'calregs' are in the lowered URL; on the pages of the table '/document/'
\* occurs only in '/calregs/document/'
simple_is_section_url(p) ==
    "/calregs/document/" \in url_text(p) /\ "calregs" \in url_text(p)

\* discover_urls, lines 127-136: the links of a fetched page that are not
\* visited go to the discovered set when they are section URLs ...
simple_section_links(found, seen) ==
    {l \in found : ~already_visited(l, seen) /\ simple_is_section_url(l)}

\* ... and to the frontier otherwise (the else branch)
simple_frontier_links(found, seen) ==
    {l \in found : ~already_visited(l, seen) /\ ~simple_is_section_url(l)}

\* SimpleURLDiscoverer() and discover_urls() up to the loop, lines 28-36 and
\* 98-105
SimpleStart ==
    /\ discoverer_pc # "crawling"
    /\ restarts < MaxDiscoveryRuns
    /\ restarts' = restarts + 1
    /\ discovered_urls' = load_checkpoint(checkpoint_file)
    /\ to_visit' = {CCR_BASE_URL}
    /\ visited' = {}
    /\ links' = {}
    /\ max_pages' = 0
    /\ max_section_urls' = 0
    /\ fetch_count' = [p \in Pages |-> 0]
    /\ discoverer_pc' = "crawling"
    /\ UNCHANGED <<checkpoint_file, discovered_file, ledger_side>>

\* one iteration of the loop, lines 110-146: current_url is popped; unless
\* it was visited it joins visited and fetch_page is called. When the fetch
\* succeeded (ok) the links found are classified and, inside the same try
\* block, the checkpoint is saved if len(visited) is a multiple of the
\* interval; when it raised, the except clause logs and the loop goes on
SimpleVisit(current_url, found, ok) ==
    /\ discoverer_pc = "crawling"
    /\ current_url \in to_visit
    /\ IF already_visited(current_url, visited)
       THEN /\ to_visit' = to_visit \ {current_url}
            /\ UNCHANGED <<visited, links, discovered_urls, fetch_count,
                           checkpoint_file, discovered_file>>
       ELSE /\ visited' = visited \cup {current_url}
            /\ fetch_count' = [fetch_count EXCEPT ![current_url] = Tally(@)]
            /\ IF ok
               THEN /\ links' = found
                    /\ discovered_urls' = discovered_urls \cup
                                             simple_section_links(found, visited')
                    /\ to_visit' = (to_visit \ {current_url}) \cup
                                      simple_frontier_links(found, visited')
                    /\ IF Cardinality(visited') % SIMPLE_CHECKPOINT_EVERY = 0
                       THEN Save(discovered_urls', "none")
                       ELSE UNCHANGED <<checkpoint_file, discovered_file>>
               ELSE /\ to_visit' = to_visit \ {current_url}
                    /\ UNCHANGED <<links, discovered_urls, checkpoint_file,
                                   discovered_file>>
    /\ UNCHANGED <<discoverer_pc, max_pages, max_section_urls, restarts,
                   ledger_side>>

\* lines 110 and 148-150: the frontier is empty; the final save_checkpoint()
\* and save_discovered_urls()
SimpleFinish ==
    /\ discoverer_pc = "crawling"
    /\ to_visit = {}
    /\ Save(discovered_urls, "none")
    /\ discoverer_pc' = "done"
    /\ DropLocals
    /\ UNCHANGED <<discovered_urls, max_pages, max_section_urls, restarts,
                   ledger_side>>

\* one run of simple_url_discoverer.main; a fetch may fail
NextSimpleDiscovery ==
    \/ restarts = 0 /\ SimpleStart
    \/ \E u \in Pages, found \in SUBSET Pages : SimpleVisit(u, found, TRUE)
    \/ \E u \in Pages : SimpleVisit(u, {}, FALSE)
    \/ SimpleFinish

SpecSimpleDiscovery == InitDiscovery /\ [][NextSimpleDiscovery]_vars

\* ---- properties ----------------------------------------------------------

InExtraction == pc \in {"extracting", "extracted"}

Discovered == Range(discovered_file)

\* u had a record in the extracted ledger before the current run started
HasOldRecord(u) ==
    \E i \in DOMAIN extracted_file :
        extracted_file[i].source_url = u /\ extracted_file[i].retrieved_at < clock

\* the records the current run has appended
NewExtracted == {i \in DOMAIN extracted_file : extracted_file[i].retrieved_at = clock}
NewFailed == {i \in DOMAIN failed_file : failed_file[i].failed_at = clock}
NewExtractedOf(u) == {i \in NewExtracted : extracted_file[i].source_url = u}
NewFailedOf(u) == {i \in NewFailed : failed_file[i].url = u}

FailedURLsIn(file) == {file[i].url : i \in DOMAIN file}

\* C1: in an extraction run, a discovered URL that already had a record in
\* the extracted ledger is not fetched and gets no new record in either
\* ledger; when every discovered URL had one, the run appends nothing
C1_ExtractionIdempotent ==
    InExtraction =>
        /\ \A u \in Discovered :
              HasOldRecord(u) =>
                  /\ task[u] = "none"
                  /\ attempts[u] = 0
                  /\ NewExtractedOf(u) = {}
                  /\ NewFailedOf(u) = {}
        /\ (\A u \in Discovered : HasOldRecord(u)) =>
              NewExtracted = {} /\ NewFailed = {}

\* a run has returned that skipped one URL and worked on another
C1_Witness ==
    /\ pc = "extracted"
    /\ \E u \in Discovered : HasOldRecord(u)
    /\ \E v \in Discovered : task[v] \in {"ok", "failed"}

\* C2 as stated: a URL that failed attempts 1..N-1 and succeeded on attempt
\* N <= MAX_RETRIES has a record in the extracted ledger and is absent from
\* the failure ledger
C2_AbsentFromFailureLedger ==
    InExtraction =>
        \A u \in URLs :
            (task[u] = "ok" /\ attempts[u] <= MAX_RETRIES) =>
                /\ NewExtractedOf(u) # {}
                /\ u \notin FailedURLsIn(failed_file)

\* C2 amended: such a URL has a record of this run in the extracted ledger
\* and the run appends no FailedURL record for it; the failure ledger holds
\* for it only what earlier runs left there
C2_RetryConvergence ==
    InExtraction =>
        \A u \in URLs :
            (task[u] = "ok" /\ attempts[u] <= MAX_RETRIES) =>
                /\ Cardinality(NewExtractedOf(u)) = 1
                /\ NewFailedOf(u) = {}

\* a URL succeeded on the last attempt allowed, after MAX_RETRIES - 1 failures
C2_Witness ==
    /\ pc = "extracted"
    /\ \E u \in URLs : task[u] = "ok" /\ attempts[u] = MAX_RETRIES

\* C3: a URL is fetched at most MAX_RETRIES times in a run; a URL whose
\* MAX_RETRIES attempts all raised has exactly one FailedURL record of this
\* run and is not attempted again
C3_BoundedRetries ==
    InExtraction =>
        \A u \in URLs :
            /\ attempts[u] <= MAX_RETRIES
            /\ task[u] = "failed" =>
                  /\ attempts[u] = MAX_RETRIES
                  /\ Cardinality(NewFailedOf(u)) = 1
            /\ task[u] # "failed" => NewFailedOf(u) = {}

\* the run returned with a URL that exhausted its attempts
C3_Witness ==
    /\ pc = "extracted"
    /\ \E u \in URLs : task[u] = "failed" /\ attempts[u] = MAX_RETRIES

Working == {u \in URLs : task[u] = "working"}

\* C4: at most MAX_CONCURRENT_REQUESTS URLs are being worked on, and every
\* slot taken is given back when its unit ends, on success and on failure
C4_BoundedConcurrency ==
    /\ Cardinality(Working) <= MAX_CONCURRENT_REQUESTS
    /\ semaphore = MAX_CONCURRENT_REQUESTS - Cardinality(Working)

\* every slot is taken, one of them reused after a unit that failed and one
\* after a unit that succeeded
C4_Witness ==
    /\ Cardinality(Working) = MAX_CONCURRENT_REQUESTS
    /\ \E u \in URLs : task[u] = "failed"

\* C5: a URL that fails on every attempt does not abort the batch: the run
\* never ends in an exception, and when it returns every URL of the
\* to-process set has been attempted
C5_FailureDoesNotAbort ==
    /\ pc # "crashed"
    /\ pc = "extracted" =>
          \A u \in Range(urls_to_process) :
              attempts[u] >= 1 /\ task[u] \in {"ok", "failed"}

\* the run returned with one URL failed for good and another extracted
C5_Witness ==
    /\ pc = "extracted"
    /\ \E u, v \in URLs : task[u] = "failed" /\ task[v] = "ok"

\* ---- properties of the retry pass ----------------------------------------

URLSeq(file) == [i \in DOMAIN file |-> file[i].url]

\* the URLs of the old failure ledger, as the pass loaded them
urls_to_retry == URLSeq(failed_entries)

\* the URLs the pass promoted, in the order of their new extracted records
RECURSIVE NewSourceURLs(_)
NewSourceURLs(file) ==
    IF file = << >> THEN << >>
    ELSE IF Head(file).retrieved_at = clock
         THEN <<Head(file).source_url>> \o NewSourceURLs(Tail(file))
         ELSE NewSourceURLs(Tail(file))

Promoted == NewSourceURLs(extracted_file)

\* the subsequence of s at the positions of S
RECURSIVE Pick(_, _, _)
Pick(s, S, i) ==
    IF i > Len(s) THEN << >>
    ELSE IF i \in S THEN <<s[i]>> \o Pick(s, S, i + 1)
         ELSE Pick(s, S, i + 1)

\* C6: the retry pass fetches each URL of the failure ledger exactly once
C6_OneFetchPerURL ==
    pc = "retried" => \A u \in Range(urls_to_retry) : pass_fetches[u] = 1

\* C7 as stated: after a retry pass every URL of the old failure ledger is
\* promoted or still in the failure ledger, never both and never neither,
\* and the new failure ledger holds no other URL
C7_URLsPartitioned ==
    pc = "retried" =>
        /\ \A u \in Range(urls_to_retry) :
              (u \in Range(Promoted)) # (u \in FailedURLsIn(failed_file))
        /\ FailedURLsIn(failed_file) \subseteq Range(urls_to_retry)

\* C7 amended: after a retry pass the entries (lines) of the old failure
\* ledger are partitioned: each entry gave either one new record of the
\* extracted ledger or one entry of the rewritten failure ledger, in the
\* order of the old ledger, and the new failure ledger holds no other URL
C7_EntriesPartitioned ==
    pc = "retried" =>
        /\ \E S \in SUBSET DOMAIN urls_to_retry :
              /\ Pick(urls_to_retry, S, 1) = Promoted
              /\ Pick(urls_to_retry, DOMAIN urls_to_retry \ S, 1) = URLSeq(failed_file)
        /\ FailedURLsIn(failed_file) \subseteq Range(urls_to_retry)

\* a pass over two entries or more promoted one and kept another
C7_Witness ==
    /\ pc = "retried"
    /\ Len(urls_to_retry) >= 2
    /\ Promoted # << >>
    /\ failed_file # << >>

\* C8: an entry still in the failure ledger after a retry pass has the
\* retry_count it had before the pass, plus one
C8_RetryCountIncremented ==
    pc = "retried" =>
        \A i \in DOMAIN failed_file :
            \E j \in DOMAIN failed_entries :
                /\ failed_entries[j].url = failed_file[i].url
                /\ failed_file[i].retry_count = failed_entries[j].retry_count + 1

\* what the claim compares of a failure ledger: everything but failed_at
Comparable(file) ==
    [i \in DOMAIN file |->
        [url |-> file[i].url, error_type |-> file[i].error_type,
         error_message |-> file[i].error_message,
         retry_count |-> file[i].retry_count]]

\* in this pass and the one before, every URL gave one and the same answer
\* to all its fetches
SameAnswers ==
    \A u \in URLs :
        /\ answered[u] # "mixed"
        /\ answered_prev[u] # "mixed"
        /\ answered[u] # "none" => answered[u] = answered_prev[u]

\* C9: a retry pass that directly follows another, the remote source
\* answering every URL the same way in both, promotes nothing and leaves
\* the failure ledger as the first pass left it
C9_RetryPassIdempotent ==
    (pc = "retried" /\ second_in_row /\ SameAnswers) =>
        /\ Promoted = << >>
        /\ Comparable(failed_file) = Comparable(failed_entries)

\* the second of two passes in a row ended with a failure ledger that is not
\* empty
C9_Witness ==
    /\ pc = "retried"
    /\ second_in_row
    /\ SameAnswers
    /\ failed_file # << >>

\* ---- properties of the coverage tracker ----------------------------------

\* C10 as stated: missing = D - E and
\* coverage_percentage = |E| / max(|D|, 1) * 100, for an empty D too
C10_CoverageMaxFormula ==
    tracker_pc = "calculated" =>
        /\ stats.missing_urls = tracker_discovered \ tracker_extracted
        /\ FracEq(stats.coverage_percentage,
                  Frac(Cardinality(tracker_extracted) * 100,
                       Max(Cardinality(tracker_discovered), 1)))

\* C10 amended: missing = D - E; coverage_percentage = |E| / |D| * 100 when
\* D is not empty, and 0 when D is empty
C10_Coverage ==
    tracker_pc = "calculated" =>
        /\ stats.missing_urls = tracker_discovered \ tracker_extracted
        /\ stats.total_missing = Cardinality(tracker_discovered \ tracker_extracted)
        /\ tracker_discovered # {} =>
              FracEq(stats.coverage_percentage,
                     Frac(Cardinality(tracker_extracted) * 100,
                          Cardinality(tracker_discovered)))
        /\ tracker_discovered = {} => stats.coverage_percentage.num = 0

\* coverage was calculated with nothing discovered and something extracted
C10_Witness ==
    /\ tracker_pc = "calculated"
    /\ tracker_discovered = {}
    /\ tracker_extracted # {}

\* C11: the report names exactly one tier, chosen by the coverage
\* percentage: excellent when >= 95, good when >= 90 and < 95, acceptable
\* when >= 80 and < 90, insufficient when < 80; discovered = 100 with
\* extracted = 80 gives 80.00 and acceptable
C11_OneTier ==
    tracker_pc \in {"generated", "saved"} =>
        LET cp == stats.coverage_percentage
        IN /\ Len(report.status) = 1
           /\ report.status[1] = "excellent" <=> AtLeast(cp, 95)
           /\ report.status[1] = "good" <=> (AtLeast(cp, 90) /\ ~AtLeast(cp, 95))
           /\ report.status[1] = "acceptable" <=> (AtLeast(cp, 80) /\ ~AtLeast(cp, 90))
           /\ report.status[1] = "insufficient" <=> ~AtLeast(cp, 80)
           /\ (stats.total_discovered = 100 /\ stats.total_extracted = 80) =>
                  report.percentage = 8000 /\ report.status = <<"acceptable">>

\* the report for 100 discovered and 80 extracted URLs was generated
C11_Witness ==
    /\ tracker_pc = "generated"
    /\ stats.total_discovered = 100
    /\ stats.total_extracted = 80
    /\ report.status = <<"acceptable">>

C13_FragmentStripped ==
    /\ normalizer_pc # "none" =>
          /\ "#" \notin Range(normalized1)
          /\ normalized1 = urlparse(defrag(url1)).netloc \o
                            urlparse(defrag(url1)).path \o
                            (IF urlparse(defrag(url1)).query # << >>
                             THEN <<"?">> \o urlparse(defrag(url1)).query
                             ELSE << >>)
    /\ normalizer_pc = "both" =>
          /\ normalized1 = normalized2
          /\ "#" \notin Range(normalized2)

\* a URL with a query and a fragment and the same URL with another fragment
\* were normalized
C13_Witness ==
    /\ normalizer_pc = "both"
    /\ urlparse(url1).query # << >>
    /\ urlparse(url1).fragment # << >>
    /\ urlparse(url2).fragment # urlparse(url1).fragment

\* ---- properties of the URL discoverer ------------------------------------

\* what is_section_url takes for a sign of content
ContentMarkers == {"/calregs/document/", "viewtype=fulltext", "document", "section"}

\* l carries a browse / hierarchy marker and no content marker
NavigationOnly(l) ==
    /\ "/calregs/browse/" \in url_text(l) \/ "guid=" \in url_text(l)
    /\ url_text(l) \cap ContentMarkers = {}

\* C14 as stated: of the links of the page just processed, one that carries
\* only a browse / hierarchy marker is no section URL and is in the
\* frontier, one that carries /calregs/document/ is a section URL and is in
\* the discovered set, and nothing is in both
C14_PutInFrontier ==
    discoverer_pc = "crawling" =>
        /\ \A l \in links :
              NavigationOnly(l) => ~is_section_url(l) /\ l \in to_visit
        /\ \A l \in links :
              "/calregs/document/" \in url_text(l) =>
                  is_section_url(l) /\ l \in discovered_urls
        /\ to_visit \cap discovered_urls = {}

\* C14 amended: a link that carries only a browse / hierarchy marker is no
\* section URL and is in the frontier unless this run has visited it
\* already; a link that carries /calregs/document/ is a section URL and is
\* in the discovered set; nothing is in both the frontier and the
\* discovered set
C14_Classification ==
    discoverer_pc = "crawling" =>
        /\ \A l \in links :
              NavigationOnly(l) =>
                  /\ ~is_section_url(l)
                  /\ l \notin discovered_urls
                  /\ (l \in to_visit) # (l \in visited)
        /\ \A l \in links :
              "/calregs/document/" \in url_text(l) =>
                  /\ is_section_url(l)
                  /\ l \in discovered_urls
                  /\ l \notin to_visit
        /\ to_visit \cap discovered_urls = {}

\* a page was processed that links to a document, to a navigation page not
\* yet visited and to a navigation page visited before
C14_Witness ==
    /\ discoverer_pc = "crawling"
    /\ \E l \in links : "/calregs/document/" \in url_text(l)
    /\ \E l \in links : NavigationOnly(l) /\ l \in to_visit
    /\ \E l \in links : NavigationOnly(l) /\ l \in visited

\* the first run has processed the root page and nothing else
RootProcessed ==
    /\ discoverer_pc = "crawling"
    /\ restarts = 1
    /\ visited = {CCR_BASE_URL}

\* the content URLs and the navigation URLs the page fetched last links to
ContentLinks == {l \in links : is_section_url(l)}
NavigationLinks == {l \in links : ~is_section_url(l) /\ joins_frontier(l)}

\* C15 as stated: after the root page, which links to n navigation URLs and
\* c content URLs, was processed from an empty discovered set, the
\* discovered set has c elements and the frontier n
C15_OnePassCounts ==
    RootProcessed =>
        /\ Cardinality(discovered_urls) = Cardinality(ContentLinks)
        /\ Cardinality(to_visit) = Cardinality(NavigationLinks)

\* C15 amended: the discovered set is the c content URLs, and the frontier
\* is the navigation URLs other than the root itself: n when the root page
\* does not link to itself, n - 1 when it does
C15_OnePass ==
    RootProcessed =>
        /\ discovered_urls = ContentLinks
        /\ to_visit = NavigationLinks \ {CCR_BASE_URL}

\* the root page was processed; it links to itself, to two other
\* navigation URLs and to two content URLs
C15_Witness ==
    /\ RootProcessed
    /\ CCR_BASE_URL \in links
    /\ Cardinality(NavigationLinks) = 3
    /\ Cardinality(ContentLinks) = 2
    /\ Cardinality(to_visit) = 2

\* C16: discover_all_urls terminates on every link graph, cyclic ones
\* included, and fetches no URL more than once in a run
C16_Terminates ==
    /\ [](\A p \in Pages : fetch_count[p] <= 1)
    /\ (discoverer_pc = "crawling") ~> (discoverer_pc = "done")

\* a page was processed that links back to two pages visited before it, or
\* to one and to itself
C16_Witness ==
    /\ discoverer_pc = "crawling"
    /\ Cardinality(links \cap visited) >= 2
    /\ to_visit # {}

\* C17: a URL once written to the discovered ledger is in the ledger after
\* every later rewrite that ran to its end, whatever runs, interruptions and
\* restarts came before
C17_NeverDeleted ==
    [][discoverer_pc' \in {"crawling", "done"} =>
          Range(discovered_file) \subseteq Range(discovered_file')]_vars

\* C18: an interruption of discovery, also within a write, leaves a
\* checkpoint that loads and a ledger that hold every URL they held before
C18_CancellationSafe ==
    [][discoverer_pc' = "interrupted" =>
          /\ checkpoint_file'.state # "corrupt"
          /\ load_checkpoint(checkpoint_file) \subseteq load_checkpoint(checkpoint_file')
          /\ Range(discovered_file) \subseteq Range(discovered_file')]_vars

\* ---- properties of persistence and of the pipeline ------------------------

\* C19: a file that cannot be written does not crash the coverage report:
\* save_report carries on and prints its summary
C19_PersistenceFailureTolerated ==
    /\ tracker_pc # "crashed"
    /\ (tracker_pc = "saved" /\ ~storage_writable) => console # << >>

\* C20: a full pipeline run, whatever URLs fail, writes a coverage report,
\* and the coverage stage starts only after the extraction stage (and the
\* retry pass, where wanted) has finished
C20_ReachesCoverage ==
    /\ [](tracker_pc # "new" => pc \in {"extracted", "retried"})
    /\ [](pc # "crashed" /\ tracker_pc # "crashed")
    /\ <>(tracker_pc = "saved" /\ coverage_report_file = report)

\* the report was written after a run in which a URL failed for good in the
\* extraction stage and again in the retry pass
C20_Witness ==
    /\ tracker_pc = "saved"
    /\ coverage_report_file # NoReport
    /\ pc = "retried"
    /\ failed_file # << >>
    /\ stats.total_missing > 0

\* ---- properties of the ledgers taken together ----------------------------

\* C21: whatever discovery runs, extraction runs and retry passes were made,
\* every source_url of the extracted ledger is a URL of the discovered ledger
C21_ExtractedSubsetOfDiscovered ==
    load_extracted_urls(extracted_file) \subseteq Range(discovered_file)

\* a second discovery run has rewritten the ledger after a page that does
\* not link to a URL extracted before
C21_Witness ==
    /\ restarts = 2
    /\ discoverer_pc = "crawling"
    /\ Cardinality(visited) = CHECKPOINT_EVERY_N_URLS
    /\ \E u \in load_extracted_urls(extracted_file) : u \notin links
    /\ discovered_urls # load_extracted_urls(extracted_file)

\* s is the beginning of t
IsPrefix(s, t) == Len(s) <= Len(t) /\ SubSeq(t, 1, Len(s)) = s

\* C22: the extracted ledger is an append log: an extraction operation only
\* adds lines, every record that was in the ledger is still there unchanged
C22_AppendLog ==
    [][IsPrefix(extracted_file, extracted_file')]_vars

\* C23: in an extraction run every URL of the to-process set gets exactly
\* one record of the run, a line of the extracted ledger or a line of the
\* failure ledger, and none before its unit has ended; when the run returns
\* extracted_count + len(failed_urls) is the number of URLs to process
C23_OneRecordPerURL ==
    InExtraction =>
        /\ \A u \in Range(urls_to_process) :
              LET e == Cardinality(NewExtractedOf(u))
                  f == Cardinality(NewFailedOf(u))
              IN /\ task[u] = "ok" => e = 1 /\ f = 0
                 /\ task[u] = "failed" => e = 0 /\ f = 1
                 /\ task[u] \in {"waiting", "working"} => e = 0 /\ f = 0
                 /\ pc = "extracted" => e + f = 1
        /\ extracted_count = Cardinality(NewExtracted)
        /\ Len(failed_urls) = Cardinality(NewFailed)
        /\ pc = "extracted" =>
              extracted_count + Len(failed_urls) = Len(urls_to_process)

\* a run over several URLs returned, one URL extracted and one failed for
\* good, each with the last line of its ledger
C23_Witness ==
    /\ pc = "extracted"
    /\ Len(urls_to_process) >= 2
    /\ extracted_count >= 1
    /\ Len(failed_urls) >= 1
    /\ failed_file[Len(failed_file)].failed_at = clock
    /\ extracted_file[Len(extracted_file)].retrieved_at = clock

\* what the coverage report counts as missing, from the ledgers as they are
MissingNow ==
    calculate_coverage(Discovered,
                       {strip_chunk(extracted_file[i].source_url) :
                           i \in DOMAIN extracted_file},
                       load_failed_dict(failed_file)).missing_urls

\* C24: after an extraction run without limit has returned, and after a
\* retry pass that followed it has completed, every URL the coverage report
\* counts as missing has an entry in the failure ledger
C24_MissingAccountedFor ==
    pc \in {"extracted", "retried"} =>
        MissingNow \subseteq FailedURLsIn(failed_file)

\* a retry pass completed that promoted one URL and left another missing
C24_Witness ==
    /\ pc = "retried"
    /\ Promoted # << >>
    /\ MissingNow # {}

\* the entries a failure ledger holds for u
EntriesOf(file, u) == {i \in DOMAIN file : file[i].url = u}

\* C28 as stated: the failure ledger holds at most one entry per URL
C28_OneEntryPerURL ==
    \A u \in URLs : Cardinality(EntriesOf(failed_file, u)) <= 1

\* C28 amended: an extraction run appends at most one entry per URL, whether
\* or not the ledger holds one already; a retry pass leaves for a URL at
\* most as many entries as it found; so a URL has at most one entry per run
\* made
C28_OneEntryPerRun ==
    /\ InExtraction =>
          \A u \in URLs : Cardinality(NewFailedOf(u)) <= 1
    /\ pc = "retried" =>
          \A u \in URLs : Cardinality(EntriesOf(failed_file, u)) <=
                          Cardinality(EntriesOf(failed_entries, u))
    /\ \A u \in URLs : Cardinality(EntriesOf(failed_file, u)) <= clock

\* an extraction run failed again on a URL that had an entry already
C28_Witness ==
    /\ pc = "extracted"
    /\ \E u \in URLs : /\ Cardinality(EntriesOf(failed_file, u)) = 2
                       /\ NewFailedOf(u) # {}

\* ---- properties of the discovery loop ------------------------------------

\* C25: between two iterations of the discovery loop the frontier, the
\* visited set and the discovered set are pairwise disjoint
C25_Disjoint ==
    discoverer_pc = "crawling" =>
        /\ to_visit \cap visited = {}
        /\ to_visit \cap discovered_urls = {}
        /\ visited \cap discovered_urls = {}

\* a run that loaded a checkpoint has all three sets filled, after a page
\* that links to a page visited before and to a URL discovered before
C25_Witness ==
    /\ discoverer_pc = "crawling"
    /\ restarts = 2
    /\ to_visit # {}
    /\ links \cap visited # {}
    /\ links \cap load_checkpoint(checkpoint_file) # {}
    /\ Cardinality(visited) % CHECKPOINT_EVERY_N_URLS # 0

\* the pages the run under way has fetched, each counted as often as fetched
RECURSIVE FetchesMade(_)
FetchesMade(S) ==
    IF S = {} THEN 0
    ELSE LET p == CHOOSE x \in S : TRUE
         IN fetch_count[p] + FetchesMade(S \ {p})

\* a step of the loop that fetches a page
FetchStep == discoverer_pc = "crawling" /\ visited # visited' /\ visited' # {}

\* the step with which discover_all_urls returns
ReturnStep == discoverer_pc = "crawling" /\ discoverer_pc' = "done"

NewSectionLinks == {l \in links' : l \notin visited' /\ is_section_url(l)}

\* C30: the discovered set holds every URL once: adding the section links
\* of a page adds the ones it did not hold and nothing else; the ledger
\* written from it holds each URL of the set on exactly one line
C30_Deduplicated ==
    /\ [](\A i, j \in DOMAIN discovered_file :
             i # j => discovered_file[i] # discovered_file[j])
    /\ [](discoverer_pc = "done" =>
             /\ Range(discovered_file) = discovered_urls
             /\ Len(discovered_file) = Cardinality(discovered_urls))
    /\ [][FetchStep =>
             /\ discovered_urls' = discovered_urls \cup NewSectionLinks
             /\ Cardinality(discovered_urls') =
                   Cardinality(discovered_urls) +
                   Cardinality(NewSectionLinks \ discovered_urls)]_vars

\* the root page of a second run links to a URL the discovered set holds
\* from the checkpoint, and to one it does not hold
C30_Witness ==
    /\ discoverer_pc = "crawling"
    /\ restarts = 2
    /\ visited = {CCR_BASE_URL}
    /\ \E l \in links : is_section_url(l) /\ l \in load_checkpoint(checkpoint_file)
    /\ \E l \in links : is_section_url(l) /\ l \notin load_checkpoint(checkpoint_file)
    /\ discovered_file # << >>

\* C27: no link is dropped: every link extract_links_from_page returned for
\* the page just fetched, unless it was visited already, is in the
\* discovered set or in the frontier
C27_NoLinkDropped ==
    discoverer_pc = "crawling" =>
        \A l \in links :
            l \notin visited => l \in discovered_urls \/ l \in to_visit

\* a step of the loop that brings the number of visited pages to a multiple
\* of the checkpoint interval, or the step that ends the loop
AtCheckpoint ==
    /\ discoverer_pc = "crawling"
    /\ \/ /\ visited' # visited
          /\ Cardinality(visited') % CHECKPOINT_EVERY_N_URLS = 0
       \/ discoverer_pc' = "done"

\* C26: each time the number of visited pages reaches a multiple of the
\* checkpoint interval, whether or not the page was fetched, and when the
\* loop ends, checkpoint and ledger are written anew and hold exactly the
\* discovered set
C26_CheckpointPersisted ==
    [][AtCheckpoint =>
          /\ checkpoint_file' = Checkpoint(discovered_urls')
          /\ discovered_file' = SortedSeq(discovered_urls')]_vars

====
